---- MODULE Spec2Model ----
(***************************************************************************)
(* Model of weather-report-scraper.py.old: discovery of the number of      *)
(* versions (get_total_versions), the thread pool that runs one            *)
(* get_weather_report per version (fetch_reports), and the assembly of the *)
(* sorted, delimited report list (main).                                   *)
(*                                                                         *)
(* Strings are sequences of one-character strings; the fixed pieces of the *)
(* f-string of main ("<version_", "</version_") are single symbols.        *)
(* Python's None is the record NoneVal, a str value t is Some(t).          *)
(* Log lines of get_weather_report and fetch_reports are not modelled; the *)
(* error lines of get_total_versions and main are (variable log).          *)
(***************************************************************************)
EXTENDS Integers, Sequences, FiniteSets, TLC

\* ---------------------------------------------------------------- bounds
\* largest version count the remote page publishes in Spec
MaxN == 3
\* largest available parallelism os.cpu_count() reports
MaxCpu == 1
\* largest version count the remote page publishes in SpecFair
MaxFairN == 2
\* largest available parallelism get_optimal_worker_count is applied to on
\* its own (SpecWorkers)
MaxProbeCpu == 64
\* in SpecPool the remote publishes PoolSlack more versions than the
\* smallest worker count
PoolSlack == 1

\* ------------------------------------------------------- program constants
\* tries = 3 (get_weather_report)
tries == 3
\* return 5 when os.cpu_count() is None
DefaultWorkers == 5
\* cpu_count * 5
WorkerFactor == 5
\* min(..., 32)
WorkerCap == 32

\* ------------------------------------------------------------ Python values
NoneVal == [none |-> TRUE, text |-> <<>>]
Some(t) == [none |-> FALSE, text |-> t]

\* truth value of `if data:` : None and the empty str are falsy
Truthy(d) == (~d.none) /\ d.text # <<>>

DigitChars == <<"0", "1", "2", "3", "4", "5", "6", "7", "8", "9">>

IsDigit(c) == \E k \in 1..10 : DigitChars[k] = c

DigitVal(c) == (CHOOSE k \in 1..10 : DigitChars[k] = c) - 1

IsSpace(c) == c \in {" ", "\n", "\t"}

\* str.strip(): drop leading and trailing whitespace
RECURSIVE LStrip(_)
LStrip(s) ==
    IF s # <<>> /\ IsSpace(Head(s)) THEN LStrip(Tail(s)) ELSE s

RECURSIVE RStrip(_)
RStrip(s) ==
    IF s # <<>> /\ IsSpace(s[Len(s)]) THEN RStrip(SubSeq(s, 1, Len(s) - 1)) ELSE s

Strip(s) == RStrip(LStrip(s))

\* str(n) for a natural number, then for an integer
RECURSIVE NatStr(_)
NatStr(n) ==
    IF n < 10 THEN <<DigitChars[n + 1]>>
    ELSE NatStr(n \div 10) \o <<DigitChars[(n % 10) + 1]>>

Str(n) == IF n < 0 THEN <<"-">> \o NatStr(0 - n) ELSE NatStr(n)

\* value of a non-empty digit string
RECURSIVE DigitsVal(_)
DigitsVal(s) ==
    IF s = <<>> THEN 0
    ELSE 10 * DigitsVal(SubSeq(s, 1, Len(s) - 1)) + DigitVal(s[Len(s)])

AllDigits(s) == s # <<>> /\ \A k \in 1..Len(s) : IsDigit(s[k])

\* int(text): surrounding whitespace is ignored, one optional sign, then
\* at least one digit; anything else raises ValueError (ok = FALSE)
ParseInt(text) ==
    LET s == Strip(text)
        signed == s # <<>> /\ Head(s) \in {"-", "+"}
        body == IF signed THEN Tail(s) ELSE s
    IN  IF AllDigits(body)
        THEN [ok |-> TRUE,
              val |-> IF signed /\ Head(s) = "-" THEN 0 - DigitsVal(body)
                      ELSE DigitsVal(body)]
        ELSE [ok |-> FALSE, val |-> 0]


\* sorted(keys): insertion sort of a sequence of integers, ascending
RECURSIVE InsertSorted(_, _)
InsertSorted(x, s) ==
    IF s = <<>> THEN <<x>>
    ELSE IF x <= Head(s) THEN <<x>> \o s
    ELSE <<Head(s)>> \o InsertSorted(x, Tail(s))

RECURSIVE Sorted(_)
Sorted(s) == IF s = <<>> THEN <<>> ELSE InsertSorted(Head(s), Sorted(Tail(s)))

\* sep.join(parts)
RECURSIVE Join(_, _)
Join(sep, parts) ==
    IF parts = <<>> THEN <<>>
    ELSE IF Len(parts) = 1 THEN parts[1]
    ELSE parts[1] \o sep \o Join(sep, Tail(parts))

\* ------------------------------------------------------------- the remote
\* What the remote site can answer in one behaviour: the version counts its
\* "Versions:" block may show, and the versions whose document request may
\* answer anything (the others always answer the same small document).
Max(S) == CHOOSE x \in S : \A y \in S : y <= x

\* text of the <pre class="glossaryProduct"> block before .strip()
RawTexts == {<<" ">>, <<"a">>, <<" ", "b", "\n">>}

PlainText == <<"a">>

\* text of an <a> inside a div
LinkTexts(counts) ==
    {Str(n) : n \in counts} \cup {Str(0 - n) : n \in {1, 2}}
        \cup {<<>>, <<"x">>, <<"-">>, <<" ", "1", "\n">>}

FirstLinks == {<<"1">>, <<"x">>}

LinkLists(counts) ==
    {<<>>} \cup {<<t>> : t \in LinkTexts(counts)}
        \cup {<<f, t>> : f \in FirstLinks, t \in LinkTexts(counts)}

\* a div: whether 'Versions:' is in div.text, and the texts of its links
Divs(counts) == [marker : BOOLEAN, links : LinkLists(counts)]

ErrorResponse == [kind |-> "error", divs |-> <<>>]

NoResponse == [kind |-> "none", divs |-> <<>>]

\* answers to the request of get_total_versions: a RequestException
\* (connection error, timeout, bad status) or a page of at most two divs
VersionResponses(counts) ==
    {ErrorResponse}
        \cup {[kind |-> "page", divs |-> <<>>]}
        \cup {[kind |-> "page", divs |-> <<d>>] : d \in Divs(counts)}
        \cup {[kind |-> "page", divs |-> <<d, e>>] :
                d \in Divs(counts), e \in Divs(counts)}

\* --------------------------------------------------------------- the state
VARIABLES
    pc,              \* position of the main thread
    remote,          \* [counts, flaky]: what the remote can answer
    response,        \* response held by get_total_versions
    total_versions,  \* main's total_versions (meaningful once pc is past "discover")
    log,             \* error lines of get_total_versions and main
    max_workers,     \* fetch_reports' max_workers
    nsub,            \* number of versions submitted to the executor
    fut,             \* per version: the future and its get_weather_report call
                     \* (submits: times submitted; attempt: loop variable;
                     \* calls: requests.get calls; sleeps: time.sleep calls;
                     \* last: what the last request met; outcome: which
                     \* return or raise ended the call; data: its value)
    collected,       \* versions whose future as_completed has yielded
    results,         \* fetch_reports' results dict, in insertion order
    sorted_reports,  \* main's sorted_reports list
    file_content,    \* weather_reports.txt
    probe            \* argument and value of a function applied on its own

vars == <<pc, remote, response, total_versions, log, max_workers, nsub, fut,
          collected, results, sorted_reports, file_content, probe>>

\* the variables of the scraper's run
run_vars == <<pc, remote, response, total_versions, log, max_workers, nsub, fut,
              collected, results, sorted_reports, file_content>>

NoProbe == [fn |-> "none", done |-> FALSE]

NoFile == [written |-> FALSE, text |-> <<>>]

NewFuture ==
    [st |-> "none", submits |-> 0, attempt |-> 0, calls |-> 0, sleeps |-> 0,
     last |-> "none", outcome |-> "none", data |-> NoneVal]

\* range(1, total_versions + 1)
Versions == 1..total_versions

InFlight == Cardinality({i \in DOMAIN fut : fut[i].st = "running"})

InitWith(r) ==
    /\ pc = "start"
    /\ remote = r
    /\ response = NoResponse
    /\ total_versions = 0
    /\ log = {}
    /\ max_workers = 0
    /\ nsub = 0
    /\ fut = [i \in 1..Max(r.counts) |-> NewFuture]
    /\ collected = {}
    /\ results = <<>>
    /\ sorted_reports = <<>>
    /\ file_content = NoFile

Init == InitWith([counts |-> 0..MaxN, flaky |-> 1..MaxN]) /\ probe = NoProbe

\* the smallest worker count get_optimal_worker_count can return
PoolN == DefaultWorkers + PoolSlack

\* more versions than workers; only version 1 answers arbitrarily
InitPool == InitWith([counts |-> {0, PoolN}, flaky |-> {1}]) /\ probe = NoProbe

\* ------------------------------------------------------ get_total_versions
\* for div in divs: the first div with the marker and at least one link
RECURSIVE FindVersionsDiv(_)
FindVersionsDiv(divs) ==
    IF divs = <<>> THEN [found |-> FALSE, text |-> <<>>]
    ELSE IF Head(divs).marker /\ Head(divs).links # <<>>
    THEN [found |-> TRUE, text |-> Head(divs).links[Len(Head(divs).links)]]
    ELSE FindVersionsDiv(Tail(divs))

\* return value and logged error of get_total_versions for a response
get_total_versions(resp) ==
    IF resp.kind = "error"
    THEN [ret |-> 0, err |-> {"Failed to fetch total versions"}]
    ELSE LET d == FindVersionsDiv(resp.divs)
         IN  IF ~d.found
             THEN [ret |-> 0, err |-> {"Could not find version information"}]
             ELSE IF ~ParseInt(d.text).ok
             THEN [ret |-> 0, err |-> {"Failed to parse version number"}]
             ELSE [ret |-> ParseInt(d.text).val, err |-> {}]

\* requests.get(url, timeout=10) and raise_for_status() of get_total_versions
RequestVersions ==
    /\ pc = "start"
    /\ \E r \in VersionResponses(remote.counts) : response' = r
    /\ pc' = "discover"
    /\ UNCHANGED <<probe, remote, total_versions, log, max_workers, nsub, fut,
                   collected, results, sorted_reports, file_content>>

\* the rest of get_total_versions and the assignment in main
Discover ==
    /\ pc = "discover"
    /\ total_versions' = get_total_versions(response).ret
    /\ log' = log \cup get_total_versions(response).err
    /\ response' = NoResponse
    /\ pc' = "main"
    /\ UNCHANGED <<probe, remote, max_workers, nsub, fut, collected, results,
                   sorted_reports, file_content>>

\* ---------------------------------------------------------------- main
\* variant: main only stops on a negative count
MainAbortsOnNegative(n) == n < 0

\* the test of main's early return
MainAborts(n) == n = 0

\* if total_versions == 0: log and return
Abort ==
    /\ pc = "main"
    /\ MainAborts(total_versions)
    /\ log' = log \cup {"Failed to determine the number of versions. Exiting."}
    /\ pc' = "aborted"
    /\ UNCHANGED <<probe, remote, response, total_versions, max_workers, nsub, fut,
                   collected, results, sorted_reports, file_content>>

\* os.cpu_count(): None, or the number of CPUs
CpuUnknown == [known |-> FALSE, n |-> 0]

CpuCounts == {CpuUnknown} \cup {[known |-> TRUE, n |-> c] : c \in 1..MaxCpu}

\* variant: the cap of 32 is left out
get_optimal_worker_count_uncapped(cpu_count) ==
    IF ~cpu_count.known THEN DefaultWorkers ELSE cpu_count.n * WorkerFactor

get_optimal_worker_count(cpu_count) ==
    IF ~cpu_count.known THEN DefaultWorkers
    ELSE IF cpu_count.n * WorkerFactor < WorkerCap THEN cpu_count.n * WorkerFactor
    ELSE WorkerCap

\* main calls fetch_reports, which creates the executor
FetchReports ==
    /\ pc = "main"
    /\ ~MainAborts(total_versions)
    /\ \E c \in CpuCounts : max_workers' = get_optimal_worker_count(c)
    /\ pc' = IF Versions = {} THEN "collect" ELSE "submit"
    /\ UNCHANGED <<probe, remote, response, total_versions, log, nsub, fut,
                   collected, results, sorted_reports, file_content>>


\* variant: the range starts one too low and version 1 stands in for 0
NextVersionOffByOne(n) == IF n = 0 THEN 1 ELSE n

\* the version the dict comprehension submits after n submissions
NextVersion(n) == n + 1

\* executor.submit(get_weather_report, version), in the order of the range
Submit ==
    /\ pc = "submit"
    /\ nsub < total_versions
    /\ nsub' = nsub + 1
    /\ fut' = [fut EXCEPT ![NextVersion(nsub)].st = "pending",
                          ![NextVersion(nsub)].submits = @ + 1]
    /\ pc' = IF nsub + 1 = total_versions THEN "collect" ELSE "submit"
    /\ UNCHANGED <<probe, remote, response, total_versions, log, max_workers,
                   collected, results, sorted_reports, file_content>>

\* ------------------------------------------------------------- the workers
\* variant: the executor starts a thread for every work item
WorkerFreeUnbounded(running, limit) == running <= limit

\* a worker thread may take a work item while fewer than max_workers run
WorkerFree(running, limit) == running < limit

\* A worker takes the oldest queued work item (the queue is FIFO and the
\* versions were queued in ascending order).
Start(i) ==
    /\ fut[i].st = "pending"
    /\ \A j \in DOMAIN fut : j < i => fut[j].st # "pending"
    /\ WorkerFree(InFlight, max_workers)
    /\ fut' = [fut EXCEPT ![i].st = "running"]
    /\ UNCHANGED <<probe, pc, remote, response, total_versions, log, max_workers, nsub,
                   collected, results, sorted_reports, file_content>>

CanAnswerAnything(i) == i \in remote.flaky

\* variant: time.sleep(2) also after the last attempt
OnRequestExceptionSleepsLast(f) ==
    IF f.attempt < tries - 1
    THEN [f EXCEPT !.calls = f.calls + 1, !.sleeps = f.sleeps + 1,
                   !.attempt = f.attempt + 1]
    ELSE [f EXCEPT !.calls = f.calls + 1, !.sleeps = f.sleeps + 1,
                   !.st = "done", !.outcome = "Failed", !.data = NoneVal]

\* except requests.RequestException: sleep and go on, or give up
OnRequestException(f) ==
    IF f.attempt < tries - 1
    THEN [f EXCEPT !.calls = f.calls + 1, !.sleeps = f.sleeps + 1,
                   !.attempt = f.attempt + 1]
    ELSE [f EXCEPT !.calls = f.calls + 1, !.st = "done", !.outcome = "Failed",
                   !.data = NoneVal]

\* variant: a missing block is retried like a transport error
OnNoPreTagRetries(f) ==
    IF f.attempt < tries - 1
    THEN [f EXCEPT !.calls = f.calls + 1, !.sleeps = f.sleeps + 1,
                   !.attempt = f.attempt + 1]
    ELSE [f EXCEPT !.calls = f.calls + 1, !.st = "done", !.outcome = "Missing",
                   !.data = NoneVal]

\* no <pre class="glossaryProduct">: warn and return None
OnNoPreTag(f) ==
    [f EXCEPT !.calls = f.calls + 1, !.st = "done", !.outcome = "Missing",
              !.data = NoneVal]

\* variant: the retry delay is also taken before a successful return
OnPreTagSleeps(f, raw) ==
    [f EXCEPT !.calls = f.calls + 1, !.sleeps = f.sleeps + 1, !.st = "done",
              !.outcome = "Success", !.data = Some(Strip(raw))]

\* return pre_tag.text.strip()
OnPreTag(f, raw) ==
    [f EXCEPT !.calls = f.calls + 1, !.st = "done", !.outcome = "Success",
              !.data = Some(Strip(raw))]

\* an exception that is no RequestException leaves get_weather_report
OnOtherException(f) ==
    [f EXCEPT !.calls = f.calls + 1, !.st = "done", !.outcome = "Raised",
              !.data = NoneVal]

\* one attempt of get_weather_report(i) ends in a RequestException
AttemptFails(i) ==
    /\ fut[i].st = "running"
    /\ CanAnswerAnything(i)
    /\ fut' = [fut EXCEPT ![i] = [OnRequestException(fut[i]) EXCEPT !.last = "error"]]
    /\ UNCHANGED <<probe, pc, remote, response, total_versions, log, max_workers, nsub,
                   collected, results, sorted_reports, file_content>>

\* one attempt gets a page without the content block
AttemptNoData(i) ==
    /\ fut[i].st = "running"
    /\ CanAnswerAnything(i)
    /\ fut' = [fut EXCEPT ![i] = [OnNoPreTag(fut[i]) EXCEPT !.last = "nopre"]]
    /\ UNCHANGED <<probe, pc, remote, response, total_versions, log, max_workers, nsub,
                   collected, results, sorted_reports, file_content>>

\* one attempt gets a page with the content block
AttemptData(i) ==
    /\ fut[i].st = "running"
    /\ \E raw \in (IF CanAnswerAnything(i) THEN RawTexts ELSE {PlainText}) :
          fut' = [fut EXCEPT ![i] = [OnPreTag(fut[i], raw) EXCEPT !.last = "pre"]]
    /\ UNCHANGED <<probe, pc, remote, response, total_versions, log, max_workers, nsub,
                   collected, results, sorted_reports, file_content>>

\* one attempt raises something else than a RequestException
AttemptRaises(i) ==
    /\ fut[i].st = "running"
    /\ CanAnswerAnything(i)
    /\ fut' = [fut EXCEPT ![i] = [OnOtherException(fut[i]) EXCEPT !.last = "other"]]
    /\ UNCHANGED <<probe, pc, remote, response, total_versions, log, max_workers, nsub,
                   collected, results, sorted_reports, file_content>>

\* ------------------------------------------------- fetch_reports' collection
Keys(d) == [k \in 1..Len(d) |-> d[k].key]

HasKey(d, v) == \E k \in 1..Len(d) : d[k].key = v

Lookup(d, v) == d[CHOOSE k \in 1..Len(d) : d[k].key = v].val

\* results[version] = data on an insertion-ordered dict
DictSet(d, v, x) ==
    IF HasKey(d, v)
    THEN [k \in 1..Len(d) |-> IF d[k].key = v THEN [key |-> v, val |-> x] ELSE d[k]]
    ELSE Append(d, [key |-> v, val |-> x])

\* variant: the loop rebinds results instead of assigning one key
StoreResultRebinds(d, v, f) ==
    IF f.outcome # "Raised" /\ Truthy(f.data)
    THEN <<[key |-> v, val |-> f.data.text]>> ELSE d

\* variant: the loop stores every returned value, None included
StoreResultUnfiltered(d, v, f) ==
    IF f.outcome # "Raised" THEN DictSet(d, v, f.data.text) ELSE d

\* body of the as_completed loop for the future of version v
StoreResult(d, v, f) ==
    IF f.outcome # "Raised" /\ Truthy(f.data) THEN DictSet(d, v, f.data.text) ELSE d

\* variant: future.result() is called outside the try block
AfterResultUncaught(f) == IF f.outcome = "Raised" THEN "crashed" ELSE "collect"

\* where the main thread is after future.result(): `except Exception` keeps
\* it in the loop when the future raised
AfterResult(f) == "collect"

\* as_completed yields a completed future that it has not yielded yet
Collect(i) ==
    /\ pc = "collect"
    /\ fut[i].st = "done"
    /\ i \notin collected
    /\ collected' = collected \cup {i}
    /\ results' = StoreResult(results, i, fut[i])
    /\ pc' = AfterResult(fut[i])
    /\ UNCHANGED <<probe, remote, response, total_versions, log, max_workers, nsub,
                   fut, sorted_reports, file_content>>

\* ------------------------------------------------------------ aggregation
\* f"<version_{v}>\n{text}\n</version_{v}>"
Block(v, text) ==
    <<"<version_">> \o Str(v) \o <<">", "\n">> \o text
        \o <<"\n", "</version_">> \o Str(v) \o <<">">>

\* variant: main walks the keys in insertion order
ReportOrderUnsorted(d) == Keys(d)

\* the keys in the order main walks them
ReportOrder(d) == Sorted(Keys(d))

\* [f"..." for v in sorted(all_reports.keys())]
SortedReports(d) ==
    [k \in 1..Len(d) |-> Block(ReportOrder(d)[k], Lookup(d, ReportOrder(d)[k]))]

\* "\n\n".join(sorted_reports)
FileText(reports) == Join(<<"\n", "\n">>, reports)

\* variant: the loop ends as soon as no completed future is left to yield
PoolDrainedEarly == \A i \in Versions : fut[i].st = "done" => i \in collected

\* as_completed has yielded every submitted future
PoolDrained == collected = Versions

\* as_completed is exhausted: fetch_reports returns, main builds the list
\* and writes the file
Aggregate ==
    /\ pc = "collect"
    /\ PoolDrained
    /\ sorted_reports' = SortedReports(results)
    /\ file_content' = [written |-> TRUE, text |-> FileText(SortedReports(results))]
    /\ pc' = "done"
    /\ UNCHANGED <<probe, remote, response, total_versions, log, max_workers, nsub,
                   fut, collected, results>>

\* every step after the request of get_total_versions has returned
RunSteps ==
    \/ Discover
    \/ Abort
    \/ FetchReports
    \/ Submit
    \/ \E i \in DOMAIN fut : Start(i)
    \/ \E i \in DOMAIN fut : AttemptFails(i)
    \/ \E i \in DOMAIN fut : AttemptNoData(i)
    \/ \E i \in DOMAIN fut : AttemptData(i)
    \/ \E i \in DOMAIN fut : AttemptRaises(i)
    \/ \E i \in DOMAIN fut : Collect(i)
    \/ Aggregate

Next == RequestVersions \/ RunSteps

Spec == Init /\ [][Next]_vars

SpecPool == InitPool /\ [][Next]_vars

\* requests.get(url, timeout=10) of get_total_versions ends at the latest
\* with the timeout, a RequestException
RequestTimesOut ==
    /\ pc = "start"
    /\ response' = ErrorResponse
    /\ pc' = "discover"
    /\ UNCHANGED <<probe, remote, total_versions, log, max_workers, nsub, fut,
                   collected, results, sorted_reports, file_content>>

\* Every requests.get returns (with the timeout at the latest) and every
\* sleep ends; the main thread and the pool's threads are scheduled by the
\* operating system: a step that stays possible is eventually taken.
InitFair == InitWith([counts |-> 0..MaxFairN, flaky |-> 1..MaxFairN]) /\ probe = NoProbe

SpecFair ==
    InitFair /\ [][Next]_vars /\ WF_vars(RequestTimesOut) /\ WF_vars(RunSteps)


\* ------------------------------------- get_optimal_worker_count on its own
ProbeCpuCounts ==
    {CpuUnknown} \cup {[known |-> TRUE, n |-> c] : c \in 1..MaxProbeCpu}

InitWorkers ==
    /\ InitWith([counts |-> {0}, flaky |-> {}])
    /\ \E c \in ProbeCpuCounts :
          probe = [fn |-> "workers", done |-> FALSE, cpu_count |-> c, worker_count |-> 0]

\* one call of get_optimal_worker_count with os.cpu_count() = probe.cpu_count
CallWorkerCount ==
    /\ probe.fn = "workers"
    /\ ~probe.done
    /\ probe' = [probe EXCEPT !.worker_count = get_optimal_worker_count(probe.cpu_count),
                              !.done = TRUE]
    /\ UNCHANGED run_vars

NextWorkers == CallWorkerCount

SpecWorkers == InitWorkers /\ [][NextWorkers]_vars

\* ------------------------------- city-weather-report-times-graph.tsx: times
\* timeStr.split(':')
RECURSIVE Split(_, _)
Split(s, sep) ==
    IF \A k \in 1..Len(s) : s[k] # sep THEN <<s>>
    ELSE LET p == CHOOSE k \in 1..Len(s) : s[k] = sep /\ \A q \in 1..(k - 1) : s[q] # sep
         IN  <<SubSeq(s, 1, p - 1)>> \o Split(SubSeq(s, p + 1, Len(s)), sep)

\* Number(text) for a text of decimal digits with optional surrounding
\* whitespace; the empty text is 0 (any other text is NaN and is not among
\* the texts the functions are applied to)
JsNumber(text) == DigitsVal(Strip(text))

\* n.toString().padStart(2, '0')
PadStart2(s) == IF Len(s) >= 2 THEN s ELSE IF Len(s) = 1 THEN <<"0">> \o s ELSE <<"0", "0">>

\* const [hours, minutes] = timeStr.split(':').map(Number)
timeToMinutes(timeStr) ==
    JsNumber(Split(timeStr, ":")[1]) * 60 + JsNumber(Split(timeStr, ":")[2])

\* variant: the parts are not padded
minutesToTimeUnpadded(minutes) ==
    NatStr(minutes \div 60) \o <<":">> \o NatStr(minutes % 60)

\* Math.floor(minutes / 60), minutes % 60, each padded to two characters
minutesToTime(minutes) ==
    PadStart2(NatStr(minutes \div 60)) \o <<":">> \o PadStart2(NatStr(minutes % 60))

\* the two decimal digits of n < 100, as a report time is written in cityData
TwoDigits(n) == <<DigitChars[(n \div 10) + 1], DigitChars[(n % 10) + 1]>>

\* the zero-padded times "HH:MM" of a day
DayTimes == {TwoDigits(h) \o <<":">> \o TwoDigits(m) : h \in 0..23, m \in 0..59}

\* A report time entered as data (entered) or a minute of the day on the
\* axis (tick); time is the data point's minute value, shown the text of
\* the tooltip or tick, readback the minute value read from that text.
InitTimes ==
    /\ InitWith([counts |-> {0}, flaky |-> {}])
    /\ \/ \E t \in DayTimes :
              probe = [fn |-> "entered", done |-> FALSE, label |-> t, time |-> 0,
                       shown |-> <<>>, readback |-> 0]
       \/ \E m \in 0..1439 :
              probe = [fn |-> "tick", done |-> FALSE, label |-> <<>>, time |-> m,
                       shown |-> <<>>, readback |-> 0]

\* generateCityData: time: timeToMinutes(time)
GenerateCityData ==
    /\ probe.fn = "entered"
    /\ probe' = [probe EXCEPT !.time = timeToMinutes(probe.label), !.fn = "point"]
    /\ UNCHANGED run_vars

\* CustomTooltip and the Y axis tickFormatter: minutesToTime(time)
ShowTime ==
    /\ probe.fn \in {"point", "tick"}
    /\ ~probe.done
    /\ probe.shown = <<>>
    /\ probe' = [probe EXCEPT !.shown = minutesToTime(probe.time),
                              !.done = (probe.fn = "point")]
    /\ UNCHANGED run_vars

\* reading a shown tick back with timeToMinutes
ReadBack ==
    /\ probe.fn = "tick"
    /\ ~probe.done
    /\ probe.shown # <<>>
    /\ probe' = [probe EXCEPT !.readback = timeToMinutes(probe.shown), !.done = TRUE]
    /\ UNCHANGED run_vars

NextTimes == GenerateCityData \/ ShowTime \/ ReadBack

SpecTimes == InitTimes /\ [][NextTimes]_vars

\* =================================================================== claims
\* reading a block back: the version between "<version_" and ">", and the
\* text between the opening and the closing line
TagEnd(b) == CHOOSE p \in 1..Len(b) : b[p] = ">" /\ \A q \in 1..(p - 1) : b[q] # ">"

BlockIndex(b) == ParseInt(SubSeq(b, 2, TagEnd(b) - 1)).val

BlockBody(b) == SubSeq(b, TagEnd(b) + 2, Len(b) - (TagEnd(b) + 1))

BlocksFor(i) == {k \in 1..Len(sorted_reports) : BlockIndex(sorted_reports[k]) = i}

DiscoveryErrors ==
    {"Failed to fetch total versions", "Could not find version information",
     "Failed to parse version number"}

\* C1: a run submits exactly one fetch for each version of 1..N and none
\* for any other version; at the end each of them has run.
C1_OneDispatchPerIndex ==
    /\ \A i \in DOMAIN fut : fut[i].submits <= 1 /\ (fut[i].submits = 1 => i \in Versions)
    /\ pc \in {"collect", "done"} =>
          /\ nsub = Cardinality(Versions)
          /\ \A i \in DOMAIN fut : fut[i].submits = (IF i \in Versions THEN 1 ELSE 0)
    /\ pc = "done" => \A i \in Versions : fut[i].st = "done" /\ fut[i].calls >= 1

C1_Witness == pc = "done" /\ total_versions >= 2 /\ nsub = total_versions

\* C2 (as claimed): every version whose fetch returned a text, whatever the
\* text, has exactly one block in the list, and the block's body is the text.
C2_SuccessHasItsBlock ==
    pc = "done" =>
        \A i \in Versions :
            fut[i].outcome = "Success" =>
                /\ Cardinality(BlocksFor(i)) = 1
                /\ \A k \in BlocksFor(i) : BlockBody(sorted_reports[k]) = fut[i].data.text

\* C3: every block of the list is for a version of 1..N whose fetch ended
\* in Success; Missing, Failed and raising versions have no block.
C3_BlocksOnlyForSuccess ==
    \A k \in 1..Len(sorted_reports) :
        /\ BlockIndex(sorted_reports[k]) \in Versions
        /\ fut[BlockIndex(sorted_reports[k])].outcome = "Success"

C3_Witness ==
    /\ pc = "done"
    /\ Len(sorted_reports) >= 1
    /\ \E i \in Versions : fut[i].outcome = "Missing"
    /\ \E i \in Versions : fut[i].outcome = "Failed"

\* the list as the outcomes alone determine it, versions ascending
RECURSIVE ReportsUpTo(_)
ReportsUpTo(n) ==
    IF n <= 0 THEN <<>>
    ELSE ReportsUpTo(n - 1) \o
         (IF fut[n].outcome = "Success" /\ Truthy(fut[n].data)
          THEN <<Block(n, fut[n].data.text)>> ELSE <<>>)

\* C4: whatever the order in which the fetches completed, the blocks are in
\* strictly ascending version order and the list and the file are the ones
\* the per-version outcomes determine.
C4_AscendingWhateverTheOrder ==
    pc = "done" =>
        /\ \A k \in 1..(Len(sorted_reports) - 1) :
              BlockIndex(sorted_reports[k]) < BlockIndex(sorted_reports[k + 1])
        /\ sorted_reports = ReportsUpTo(total_versions)
        /\ file_content.text = FileText(ReportsUpTo(total_versions))

C4_Witness ==
    /\ pc = "done"
    /\ Len(sorted_reports) >= 2
    /\ \E k \in 1..(Len(results) - 1) : results[k].key > results[k + 1].key

\* C5: a fetch all of whose attempts fail at transport level makes exactly
\* 3 requests and sleeps exactly twice (not after the third), then is Failed.
C5_ThreeAttemptsTwoDelays ==
    \A i \in DOMAIN fut :
        /\ fut[i].outcome = "Failed" =>
              fut[i].st = "done" /\ fut[i].calls = 3 /\ fut[i].sleeps = 2
        /\ (fut[i].last = "error" /\ fut[i].calls >= 3) => fut[i].outcome = "Failed"
        /\ (fut[i].last = "error" /\ fut[i].calls < 3) =>
              fut[i].st = "running" /\ fut[i].sleeps = fut[i].calls

C5_Witness == \E i \in Versions : fut[i].outcome = "Failed" /\ i \in collected

\* C6: an attempt that gets a page without the content block ends the fetch
\* at once with Missing, after 0, 1 or 2 failed attempts: no further request
\* and no further sleep.
C6_MissingReturnsAtOnce ==
    \A i \in DOMAIN fut :
        fut[i].last = "nopre" =>
            /\ fut[i].st = "done"
            /\ fut[i].outcome = "Missing"
            /\ fut[i].data = NoneVal
            /\ fut[i].calls = fut[i].attempt + 1
            /\ fut[i].sleeps = fut[i].attempt

C6_Witness ==
    /\ \E i \in Versions : fut[i].outcome = "Missing" /\ fut[i].calls = 3
    /\ \E i \in Versions : fut[i].outcome = "Missing" /\ fut[i].calls = 1

\* C7: the number of fetches running at the same time never exceeds the
\* worker count, also when more versions are queued than there are workers.
C7_InFlightBounded == InFlight <= max_workers

C7_Witness ==
    /\ InFlight = max_workers
    /\ max_workers > 0
    /\ \E i \in Versions : fut[i].st = "pending"

\* C8 (as claimed): at the end the results mapping has one entry per
\* submitted version.
C8_OneEntryPerAttempt == pc = "done" => Len(results) = nsub

\* C8 (amended): at the end the results mapping has exactly one entry for
\* each version whose fetch returned a non-empty text, and no other entry.
C8_OneEntryPerNonEmptySuccess ==
    pc = "done" =>
        /\ \A k, l \in 1..Len(results) : results[k].key = results[l].key => k = l
        /\ {results[k].key : k \in 1..Len(results)} =
              {i \in Versions : fut[i].outcome = "Success" /\ fut[i].data.text # <<>>}
        /\ Len(results) <= nsub

C8_Witness ==
    /\ pc = "done"
    /\ Len(results) >= 1
    /\ Len(results) < nsub

\* what the claim calls a failed discovery, read off the response
ClaimedDiscoveryFailure(resp) ==
    \/ resp.kind = "error"
    \/ ~FindVersionsDiv(resp.divs).found
    \/ ~ParseInt(FindVersionsDiv(resp.divs).text).ok
    \/ ParseInt(FindVersionsDiv(resp.divs).text).val < 0

\* C9 (as claimed): get_total_versions returns 0 and logs a failure when the
\* request fails, no marked div with links exists or the last link is not a
\* non-negative integer (a negative one included); otherwise it returns the
\* last link's non-negative value.
C9_ZeroOnEveryFailure ==
    [][pc = "discover" =>
        IF ClaimedDiscoveryFailure(response)
        THEN total_versions' = 0 /\ log' \cap DiscoveryErrors # {}
        ELSE /\ total_versions' = ParseInt(FindVersionsDiv(response.divs).text).val
             /\ total_versions' >= 0]_vars

\* C10: once discovery has failed, nothing is ever submitted or fetched and
\* no list or file is produced; the run can only abort.
C10_NoFetchAfterFailedDiscovery ==
    log \cap DiscoveryErrors # {} =>
        /\ pc \in {"main", "aborted"}
        /\ total_versions = 0
        /\ nsub = 0
        /\ \A i \in DOMAIN fut : fut[i] = NewFuture
        /\ sorted_reports = <<>>
        /\ file_content = NoFile

C10_Witness == pc = "aborted" /\ "Failed to parse version number" \in log


\* C11 (as claimed): when discovery yields 0 without failing, nothing is
\* submitted and the run ends with an artifact that is the empty string.
C11_ZeroGivesEmptyArtifact ==
    (total_versions = 0 /\ log \cap DiscoveryErrors = {}) =>
        /\ nsub = 0
        /\ pc \in {"aborted", "done"} => file_content = [written |-> TRUE, text |-> <<>>]

\* C11 (amended): when discovery yields 0 without failing, nothing is
\* submitted or fetched and the run aborts without any list or file.
C11_ZeroGivesNoArtifact ==
    (pc \notin {"start", "discover"} /\ total_versions = 0
        /\ log \cap DiscoveryErrors = {}) =>
        /\ pc \in {"main", "aborted"}
        /\ nsub = 0
        /\ \A i \in DOMAIN fut : fut[i] = NewFuture
        /\ sorted_reports = <<>>
        /\ file_content = NoFile

C11_Witness ==
    /\ pc = "aborted"
    /\ total_versions = 0
    /\ log = {"Failed to determine the number of versions. Exiting."}

\* C12 (as claimed): versions that end Missing or Failed never abort the
\* run, and at its end every version that ended in Success has its block.
C12_FailuresLeaveOthersIntact ==
    (\E i \in Versions : fut[i].outcome \in {"Missing", "Failed"}) =>
        /\ pc \notin {"aborted", "crashed"}
        /\ pc = "done" =>
              \A j \in Versions :
                  fut[j].outcome = "Success" =>
                      \E k \in BlocksFor(j) :
                          BlockBody(sorted_reports[k]) = fut[j].data.text

\* C13: a fetch that raises something else than a transport error is caught
\* in the collection loop: its version gets no entry, the loop goes on, every
\* other version is still collected and stored, and fetch_reports returns.
C13_RaisedIsCaughtAtThePool ==
    /\ pc # "crashed"
    /\ \A i \in DOMAIN fut :
          (fut[i].outcome = "Raised" /\ i \in collected) =>
              pc \in {"collect", "done"} /\ ~HasKey(results, i)
    /\ (pc = "done" /\ \E i \in Versions : fut[i].outcome = "Raised") =>
          \A j \in Versions :
              /\ j \in collected
              /\ (fut[j].outcome # "Raised" /\ Truthy(fut[j].data)) =>
                    HasKey(results, j) /\ Lookup(results, j) = fut[j].data.text

C13_Witness ==
    /\ pc = "done"
    /\ \E i \in Versions : fut[i].outcome = "Raised" /\ fut[i].calls = 2
    /\ \E j \in Versions : HasKey(results, j)


\* C14: get_optimal_worker_count returns min(5 * p, 32) for a known
\* parallelism p and 5 for an unknown one; for p >= 1 the value is in 5..32.
C14_WorkerCountFormula ==
    (probe.fn = "workers" /\ probe.done) =>
        IF probe.cpu_count.known
        THEN /\ probe.worker_count =
                  (IF 5 * probe.cpu_count.n <= 32 THEN 5 * probe.cpu_count.n ELSE 32)
             /\ probe.worker_count >= 5
             /\ probe.worker_count <= 32
        ELSE probe.worker_count = 5

C14_Witness ==
    /\ probe.fn = "workers"
    /\ probe.done
    /\ probe.cpu_count.known
    /\ 5 * probe.cpu_count.n > 32
    /\ probe.worker_count = 32


\* C15 (as claimed): a fetch whose first 1 or 2 attempts fail at transport
\* level and whose next attempt gets a payload returns that payload after
\* exactly that many sleeps, and the version's block is in the artifact.
C15_TransientFailuresAreMasked ==
    \A i \in Versions :
        (fut[i].outcome = "Success" /\ fut[i].calls \in {2, 3}) =>
            /\ fut[i].sleeps = fut[i].calls - 1
            /\ ~fut[i].data.none
            /\ pc = "done" =>
                  \E k \in BlocksFor(i) :
                      BlockBody(sorted_reports[k]) = fut[i].data.text

\* C17: a fetch makes between 1 and 3 requests and has slept once less than
\* it has made requests when it ends; it sleeps only after a failed attempt
\* that another attempt follows, never after the last attempt and never
\* after an attempt that got a page.
C17_DelaysAreAttemptsMinusOne ==
    \A i \in DOMAIN fut :
        /\ fut[i].st = "done" =>
              /\ fut[i].calls >= 1
              /\ fut[i].calls <= 3
              /\ fut[i].sleeps = fut[i].calls - 1
        /\ fut[i].st = "running" =>
              /\ fut[i].calls <= 2
              /\ fut[i].sleeps = fut[i].calls
              /\ fut[i].calls > 0 => fut[i].last = "error"
        /\ fut[i].st \in {"none", "pending"} => fut[i].calls = 0 /\ fut[i].sleeps = 0

C17_Witness ==
    /\ \E i \in Versions : fut[i].st = "done" /\ fut[i].calls = 3 /\ fut[i].last = "pre"
    /\ \E i \in Versions : fut[i].st = "done" /\ fut[i].calls = 3 /\ fut[i].last = "error"
    /\ \E i \in Versions : fut[i].st = "done" /\ fut[i].calls = 1


\* C16: when every request returns and the threads are scheduled fairly,
\* the run ends, and it ends either aborted after discovery with nothing
\* submitted, or with every submitted fetch completed and collected.
C16_RunTerminates ==
    /\ <>(pc \in {"aborted", "done"})
    /\ [](pc = "aborted" => nsub = 0 /\ \A i \in DOMAIN fut : fut[i] = NewFuture)
    /\ [](pc = "done" =>
            /\ nsub = Cardinality(Versions)
            /\ \A i \in DOMAIN fut :
                  IF i \in Versions
                  THEN fut[i].st = "done" /\ i \in collected
                  ELSE fut[i] = NewFuture)

C16_Witness ==
    /\ pc = "done"
    /\ nsub >= 2
    /\ \A i \in Versions : fut[i].st = "done" /\ fut[i].calls = 3


\* C18: the artifact is derived in one step, once; at that step every
\* submitted fetch has completed and been collected and none is queued or
\* running; and a fetch is submitted only after discovery has completed.
C18_AggregationAfterThePool ==
    [][/\ (pc # "done" /\ pc' = "done") =>
              /\ nsub = Cardinality(Versions)
              /\ \A i \in Versions : fut[i].st = "done" /\ i \in collected
              /\ \A i \in DOMAIN fut : fut[i].st \notin {"pending", "running"}
       /\ (sorted_reports' # sorted_reports \/ file_content' # file_content) =>
              pc = "collect" /\ pc' = "done"
       /\ pc = "done" => pc' = "done"
       /\ \A i \in DOMAIN fut :
              fut'[i].submits # fut[i].submits =>
                  /\ pc = "submit"
                  /\ response = NoResponse
                  /\ i \in Versions]_vars

C18_Witness ==
    /\ pc = "done"
    /\ file_content.written
    /\ Len(sorted_reports) >= 3

\* C19: an entry of the results mapping, once written, is never changed or
\* removed; a step writes at most one key, a key is written once, and only
\* the collecting loop of the main thread writes.
C19_ResultEntriesAreWrittenOnce ==
    [][/\ Len(results') >= Len(results)
       /\ Len(results') <= Len(results) + 1
       /\ \A k \in 1..Len(results) : results'[k] = results[k]
       /\ \A k, l \in 1..Len(results') : results'[k].key = results'[l].key => k = l
       /\ results' # results => pc = "collect" /\ pc' = "collect"]_vars

C19_Witness ==
    /\ pc = "collect"
    /\ Len(results) >= 2
    /\ \E i \in Versions : fut[i].st = "running"


\* C20: a zero-padded report time "HH:MM" entered as data is shown
\* unchanged by the tooltip, and a minute of the day 0..1439 shown as a
\* text is read back as the same minute.
C20_TimeRoundTrips ==
    /\ (probe.fn = "point" /\ probe.done) => probe.shown = probe.label
    /\ (probe.fn = "tick" /\ probe.done) => probe.readback = probe.time

C20_Witness ==
    /\ probe.fn = "point"
    /\ probe.done
    /\ probe.label = <<"0", "7", ":", "0", "5">>
    /\ probe.time = 425

====
